---- MODULE Spec2Model ----
(***************************************************************************)
(* The realtime voice session core of the chat widget: the App component   *)
(* of the relay client (frontend/src/App.tsx, a WebSocket to the relay     *)
(* server) and of the direct client (unnamed/part_000, the streaming SDK   *)
(* called from the browser).  Both share the playback scheduler, the turn  *)
(* status and the content-event handler; they differ in how a session is   *)
(* opened and torn down.                                                   *)
(*                                                                         *)
(* The browser runs one handler at a time.  A handler that awaits an       *)
(* already settled promise continues in the same task, so it is one step   *)
(* here; a handler that awaits a pending promise (getUserMedia, the SDK's  *)
(* connect) is split at that await.                                        *)
(***************************************************************************)
EXTENDS Integers, Sequences, FiniteSets, TLC

\* ------------------------------------------------------------------ bounds
MaxSessions == 2      \* startSession calls in one run
MaxFrames == 2        \* playback sources created in one run
MaxClock == 2         \* largest audioContext.currentTime reading
MaxDur == 2           \* longest decoded frame
MaxPendingStops == 2  \* stopSession calls suspended on one connect promise
MaxText == 2          \* characters in the two transcript buffers together
MaxMsgs == 2          \* messages appended to the log in one run
MaxSent == 2          \* capture frames sent on one transport
MaxQueued == 1        \* capture frames waiting on one pending connect promise
MaxReceived == 3      \* messages the relay server receives on one connection
MaxRelayed == 1       \* backend messages the relay server is handed
MaxTextReq == 1       \* text requests awaiting their response at one time

Sessions == 1..MaxSessions
NoAudio == 0          \* the event carries no inlineData
Malformed == -1       \* the event carries inlineData that does not decode

\* Transcript text is a sequence of characters; the empty one is what
\* `if (inputTranscription?.text)` skips.
Chars == {"a", " "}
Fragments == {<< >>, <<"a">>, <<" ">>}
\* The text of the greeting the log starts with.
Greeting == <<"a">>

Statuses == {"IDLE", "LISTENING", "THINKING", "SPEAKING", "ERROR"}
Variants == {"relay", "direct"}

VARIABLES
  variant,                 \* which client this run is
  scope,                   \* what this run explores: starts, frames and capture
                           \* sends allowed, largest clock reading and frame
                           \* duration, transcript characters allowed, starts
                           \* while an earlier call is unsettled or not
  status,                  \* useState<Status>
  isVoiceMode,             \* useState(false)
  startSessionSpeaking,    \* the memoized startSession closed over status 'SPEAKING'
  nSessions,               \* startSession calls so far
  pc,                      \* per call: "none" | "awaitGUM" | "started" | "failed"
  capSpeaking,             \* per call: its handlers closed over status 'SPEAKING'
  stream,                  \* per call: MediaStream "none" | "live" | "stopped"
  conn,                    \* per call: transport "none" | CONNECTING | OPEN | CLOSING | CLOSED
  sessionPromise,          \* per call (direct): "none" | "pending" | "resolved"
  proc,                    \* per call: ScriptProcessor "none" | "connected" | "disconnected"
  outCtx,                  \* per call: output AudioContext "none" | "running" | "closed"
  wsRef,                   \* relay: wsRef.current (0 is null)
  sessionPromiseRef,       \* direct: sessionPromiseRef.current (0 is null)
  streamRef,               \* streamRef.current
  scriptProcessorRef,      \* scriptProcessorRef.current
  outputAudioContextRef,   \* outputAudioContextRef.current
  nextStartTime,           \* nextStartTimeRef.current
  playingSources,          \* playingSourcesRef.current, a set of source ids
  sources,                 \* the state of every AudioBufferSourceNode created, in order
  lastSched,               \* the last source.start: its time, the frame's duration, and
                           \* how many frames were scheduled since the last stopAllPlayback
  currentInputTranscription,   \* currentInputTranscriptionRef.current
  currentOutputTranscription,  \* currentOutputTranscriptionRef.current
  messages,                \* useState<Message[]>
  pendingStops,            \* direct: stopSession calls awaiting each connect promise
  closeCalls,              \* per call: close() invocations on its transport
  sent,                    \* per call: what was sent on its transport, in order
  thenQueue,               \* direct, per call: capture frames waiting in a
                           \* `.then` on its pending connect promise
  turnFragments,           \* the transcript fragments received since the last
                           \* start or, if later, since the event after the last
                           \* flush, per side; whether the last event flushed
                           \* them, the length of the log before that flush and
                           \* the fragments that event itself carried
  srv,                     \* relay server: the state of one client connection
  textReq,                 \* handleSendText calls awaiting their response
  errSince,                \* an error was handled and no start followed
  lastUserAction           \* "none" | "start" | "stop": the last toggle

vars == <<variant, scope, status, isVoiceMode, startSessionSpeaking, nSessions,
          pc, capSpeaking, stream, conn, sessionPromise, proc, outCtx, wsRef,
          sessionPromiseRef, streamRef, scriptProcessorRef,
          outputAudioContextRef, nextStartTime, playingSources, sources,
          lastSched, currentInputTranscription, currentOutputTranscription,
          messages, pendingStops, closeCalls, sent, thenQueue, turnFragments,
          srv, textReq, errSince, lastUserAction>>

\* What no handler writes, and the transcript state.
fixedVars == <<variant, scope>>
textVars == <<currentInputTranscription, currentOutputTranscription, messages>>

\* What only the capture path writes.
wireVars == <<sent, thenQueue>>

\* Everything but the relay server's connection.
clientVars == <<variant, scope, status, isVoiceMode, startSessionSpeaking, nSessions,
                pc, capSpeaking, stream, conn, sessionPromise, proc, outCtx, wsRef,
                sessionPromiseRef, streamRef, scriptProcessorRef,
                outputAudioContextRef, nextStartTime, playingSources, sources,
                lastSched, currentInputTranscription, currentOutputTranscription,
                messages, pendingStops, closeCalls, sent, thenQueue, turnFragments,
                textReq, errSince, lastUserAction>>

lifeVars == <<nSessions, pc, capSpeaking, stream, conn, sessionPromise, proc,
              outCtx, wsRef, sessionPromiseRef, streamRef, scriptProcessorRef,
              outputAudioContextRef, pendingStops, closeCalls>>

Max(a, b) == IF a >= b THEN a ELSE b

\* ------------------------------------------------------- playback scheduler

\* The scheduler's state as one value.
PB ==
  [nextStartTime |-> nextStartTime, playing |-> playingSources,
   sources |-> sources, lastSched |-> lastSched]

\* stopAllPlayback without `nextStartTimeRef.current = 0`.
stopAllPlayback_keepsCursor(pb) ==
  [pb EXCEPT !.playing = {},
             !.sources = [i \in DOMAIN pb.sources |->
                            IF i \in pb.playing /\ pb.sources[i] = "scheduled"
                              THEN "stopped" ELSE pb.sources[i]],
             !.lastSched.run = 0]

\* source.stop() on every playing source, clear the set, reset the cursor.
stopAllPlayback(pb) ==
  [nextStartTime |-> 0,
   playing |-> {},
   sources |-> [i \in DOMAIN pb.sources |->
                  IF i \in pb.playing /\ pb.sources[i] = "scheduled"
                    THEN "stopped" ELSE pb.sources[i]],
   lastSched |-> [pb.lastSched EXCEPT !.run = 0]]

\* The start time without the Math.max against the clock.
startTimeOf_cursorOnly(pb, now) == pb.nextStartTime

\* The start time without the Math.max against the cursor.
startTimeOf_clockOnly(pb, now) == now

\* startTime = Math.max(nextStartTimeRef.current, audioContext.currentTime)
startTimeOf(pb, now) == Max(pb.nextStartTime, now)

\* A scheduler that sets the cursor from the clock alone.
schedule_fromClock(pb, dur, now) ==
  [nextStartTime |-> now + dur,
   playing |-> pb.playing \cup {Len(pb.sources) + 1},
   sources |-> Append(pb.sources, "scheduled"),
   lastSched |-> [start |-> now, dur |-> dur, run |-> pb.lastSched.run + 1]]

\* source.start(startTime); advance the cursor; add the source to the set.
schedule(pb, dur, now) ==
  LET startTime == startTimeOf(pb, now)
  IN  [nextStartTime |-> startTime + dur,
       playing |-> pb.playing \cup {Len(pb.sources) + 1},
       sources |-> Append(pb.sources, "scheduled"),
       lastSched |-> [start |-> startTime, dur |-> dur,
                      run |-> pb.lastSched.run + 1]]

SetPB(pb) ==
  /\ nextStartTime' = pb.nextStartTime
  /\ playingSources' = pb.playing
  /\ sources' = pb.sources
  /\ lastSched' = pb.lastSched

\* No fragment on either side.
NoFragments ==
  [user |-> << >>, bot |-> << >>, flushed |-> FALSE, before |-> 0,
   trailUser |-> << >>, trailBot |-> << >>]

\* wss.on('connection'): the socket is open, sessionPromise is null, nothing
\* was received, no backend session exists.
srvConnection ==
  [ws |-> "OPEN", sessionPromise |-> "null", gemini |-> "none",
   received |-> << >>, connectCalls |-> 0, audioWaiting |-> 0,
   closeWaiting |-> FALSE, forwarded |-> 0, relayed |-> 0, errorsSent |-> 0,
   closeCalls |-> 0]

InitIn(sc) ==
  /\ variant \in Variants
  /\ scope = sc
  /\ status = "IDLE"
  /\ isVoiceMode = FALSE
  /\ startSessionSpeaking = FALSE
  /\ nSessions = 0
  /\ pc = [s \in Sessions |-> "none"]
  /\ capSpeaking = [s \in Sessions |-> FALSE]
  /\ stream = [s \in Sessions |-> "none"]
  /\ conn = [s \in Sessions |-> "none"]
  /\ sessionPromise = [s \in Sessions |-> "none"]
  /\ proc = [s \in Sessions |-> "none"]
  /\ outCtx = [s \in Sessions |-> "none"]
  /\ wsRef = 0
  /\ sessionPromiseRef = 0
  /\ streamRef = 0
  /\ scriptProcessorRef = 0
  /\ outputAudioContextRef = 0
  /\ nextStartTime = 0
  /\ playingSources = {}
  /\ sources = << >>
  /\ lastSched = [start |-> 0, dur |-> 0, run |-> 0]
  /\ currentInputTranscription = << >>
  /\ currentOutputTranscription = << >>
  /\ messages = <<[text |-> Greeting, sender |-> "bot"]>>
  /\ pendingStops = [s \in Sessions |-> 0]
  /\ closeCalls = [s \in Sessions |-> 0]
  /\ sent = [s \in Sessions |-> << >>]
  /\ thenQueue = [s \in Sessions |-> 0]
  /\ turnFragments = NoFragments
  /\ srv = srvConnection
  /\ textReq = 0
  /\ errSince = FALSE
  /\ lastUserAction = "none"

\* One voice session: every interleaving of its start, its content events,
\* playback ends, stops and errors; events without transcript text.
Init ==
  InitIn([sessions |-> 1, frames |-> MaxFrames, clock |-> MaxClock, dur |-> MaxDur,
          sends |-> MaxSent, text |-> 0, overlap |-> TRUE])

\* ------------------------------------------------------------- teardown

\* streamRef.current?.getTracks().forEach(track => track.stop())
stoppedTracks ==
  IF streamRef # 0 THEN [stream EXCEPT ![streamRef] = "stopped"] ELSE stream

\* scriptProcessorRef.current?.disconnect()
disconnectedProc ==
  IF scriptProcessorRef # 0
    THEN [proc EXCEPT ![scriptProcessorRef] = "disconnected"] ELSE proc

\* outputAudioContextRef.current.close()
closedOutCtx ==
  IF outputAudioContextRef # 0
    THEN [outCtx EXCEPT ![outputAudioContextRef] = "closed"] ELSE outCtx

\* transport.close(): an OPEN transport starts closing, any other is left.
closeTransport(c, s) ==
  IF c[s] = "OPEN" THEN [c EXCEPT ![s] = "CLOSING"] ELSE c

\* The tail of stopSession without setStatus('IDLE').
releaseAndIdle_keepsStatus ==
  /\ stream' = stoppedTracks
  /\ streamRef' = 0
  /\ proc' = disconnectedProc
  /\ scriptProcessorRef' = 0
  /\ outCtx' = closedOutCtx
  /\ outputAudioContextRef' = 0
  /\ status' = status
  /\ isVoiceMode' = FALSE

\* The tail of stopSession, after the transport: release the capture stream,
\* the processor and the output context, then setStatus('IDLE') and
\* setIsVoiceMode(false).
releaseAndIdle ==
  /\ stream' = stoppedTracks
  /\ streamRef' = 0
  /\ proc' = disconnectedProc
  /\ scriptProcessorRef' = 0
  /\ outCtx' = closedOutCtx
  /\ outputAudioContextRef' = 0
  /\ status' = "IDLE"
  /\ isVoiceMode' = FALSE

\* stopSession of the relay client, with c the transports as the caller left
\* them.  It has no await: it runs to its end inside the caller's task.
stopSession(c) ==
  /\ SetPB(stopAllPlayback(PB))
  /\ IF wsRef # 0 /\ c[wsRef] = "OPEN"
       THEN /\ conn' = closeTransport(c, wsRef)
            /\ closeCalls' = [closeCalls EXCEPT ![wsRef] = @ + 1]
       ELSE /\ conn' = c
            /\ closeCalls' = closeCalls
  /\ wsRef' = 0
  /\ releaseAndIdle
  /\ UNCHANGED <<sessionPromiseRef, sessionPromise, pendingStops>>

\* stopSession of the direct client, with c the transports and st the status
\* as the caller left them.  It awaits the connect promise: with none it runs
\* through, with a resolved one it continues in the same task, with a pending
\* one it stays suspended after stopAllPlayback.
stopSession_direct(c, st) ==
  /\ SetPB(stopAllPlayback(PB))
  /\ wsRef' = wsRef
  /\ sessionPromise' = sessionPromise
  /\ IF sessionPromiseRef = 0
       THEN /\ conn' = c
            /\ UNCHANGED <<closeCalls, sessionPromiseRef, pendingStops>>
            /\ releaseAndIdle
       ELSE IF sessionPromise[sessionPromiseRef] = "resolved"
         THEN /\ conn' = closeTransport(c, sessionPromiseRef)
              /\ closeCalls' = [closeCalls EXCEPT ![sessionPromiseRef] = @ + 1]
              /\ sessionPromiseRef' = 0
              /\ pendingStops' = pendingStops
              /\ releaseAndIdle
         ELSE /\ pendingStops[sessionPromiseRef] < MaxPendingStops
              /\ pendingStops' = [pendingStops EXCEPT ![sessionPromiseRef] = @ + 1]
              /\ conn' = c
              /\ status' = st
              /\ UNCHANGED <<closeCalls, sessionPromiseRef, isVoiceMode, stream,
                             streamRef, proc, scriptProcessorRef, outCtx,
                             outputAudioContextRef>>

\* A suspended stopSession can continue: its connect promise has resolved.
MicrotaskReady ==
  \E s \in Sessions : pendingStops[s] > 0 /\ sessionPromise[s] = "resolved"

\* The continuation of a suspended stopSession of the direct client:
\* session.close(); sessionPromiseRef.current = null; the tail.
stopSession_resume(s) ==
  /\ variant = "direct"
  /\ pendingStops[s] > 0
  /\ sessionPromise[s] = "resolved"
  /\ pendingStops' = [pendingStops EXCEPT ![s] = @ - 1]
  /\ conn' = closeTransport(conn, s)
  /\ closeCalls' = [closeCalls EXCEPT ![s] = @ + 1]
  /\ sessionPromiseRef' = 0
  /\ releaseAndIdle
  /\ UNCHANGED <<fixedVars, textReq, srv, textVars, turnFragments, wireVars, startSessionSpeaking, nSessions, pc, capSpeaking,
                 sessionPromise, wsRef, nextStartTime, playingSources, sources,
                 lastSched, errSince, lastUserAction>>

\* ------------------------------------------------------------ start, toggle

\* Nothing of call s is pending and its transport is not open.
settled(s) ==
  /\ pc[s] # "awaitGUM"
  /\ conn[s] \notin {"CONNECTING", "OPEN"}
  /\ pendingStops[s] = 0

\* startSession up to its await of getUserMedia.
startSession ==
  /\ nSessions < scope.sessions
  /\ scope.overlap \/ \A s \in Sessions : settled(s)
  /\ nSessions' = nSessions + 1
  /\ status' = "LISTENING"
  /\ isVoiceMode' = TRUE
  /\ pc' = [pc EXCEPT ![nSessions + 1] = "awaitGUM"]
  /\ capSpeaking' = [capSpeaking EXCEPT ![nSessions + 1] = startSessionSpeaking]
  /\ turnFragments' = NoFragments
  /\ errSince' = FALSE
  /\ UNCHANGED <<stream, conn, sessionPromise, proc, outCtx, wsRef,
                 sessionPromiseRef, streamRef, scriptProcessorRef,
                 outputAudioContextRef, nextStartTime, playingSources, sources,
                 lastSched, pendingStops, closeCalls>>

\* getUserMedia resolves: startSession continues to its end.
getUserMedia_resolve(s) ==
  /\ ~MicrotaskReady
  /\ pc[s] = "awaitGUM"
  /\ pc' = [pc EXCEPT ![s] = "started"]
  /\ stream' = [stream EXCEPT ![s] = "live"]
  /\ streamRef' = s
  /\ outCtx' = [outCtx EXCEPT ![s] = "running"]
  /\ outputAudioContextRef' = s
  /\ conn' = [conn EXCEPT ![s] = "CONNECTING"]
  /\ IF variant = "relay"
       THEN /\ wsRef' = s
            /\ UNCHANGED <<sessionPromiseRef, sessionPromise>>
       ELSE /\ sessionPromiseRef' = s
            /\ sessionPromise' = [sessionPromise EXCEPT ![s] = "pending"]
            /\ wsRef' = wsRef
  /\ UNCHANGED <<fixedVars, textReq, srv, textVars, turnFragments, wireVars, status, isVoiceMode, startSessionSpeaking, nSessions,
                 capSpeaking, proc, scriptProcessorRef, nextStartTime,
                 playingSources, sources, lastSched, pendingStops, closeCalls,
                 errSince, lastUserAction>>

\* The catch block without setIsVoiceMode(false).
getUserMedia_reject_keepsVoiceMode(s) ==
  /\ ~MicrotaskReady
  /\ pc[s] = "awaitGUM"
  /\ pc' = [pc EXCEPT ![s] = "failed"]
  /\ status' = "ERROR"
  /\ UNCHANGED <<fixedVars, textReq, srv, textVars, turnFragments, wireVars, isVoiceMode,
                 startSessionSpeaking, nSessions, capSpeaking, stream,
                 conn, sessionPromise, proc, outCtx, wsRef, sessionPromiseRef,
                 streamRef, scriptProcessorRef, outputAudioContextRef,
                 nextStartTime, playingSources, sources, lastSched, pendingStops,
                 closeCalls, errSince, lastUserAction>>

\* getUserMedia rejects: the catch block.
getUserMedia_reject(s) ==
  /\ ~MicrotaskReady
  /\ pc[s] = "awaitGUM"
  /\ pc' = [pc EXCEPT ![s] = "failed"]
  /\ status' = "ERROR"
  /\ isVoiceMode' = FALSE
  /\ UNCHANGED <<fixedVars, textReq, srv, textVars, turnFragments, wireVars, startSessionSpeaking, nSessions, capSpeaking, stream,
                 conn, sessionPromise, proc, outCtx, wsRef, sessionPromiseRef,
                 streamRef, scriptProcessorRef, outputAudioContextRef,
                 nextStartTime, playingSources, sources, lastSched, pendingStops,
                 closeCalls, errSince, lastUserAction>>

\* The microphone button.
handleToggleVoiceMode ==
  /\ ~MicrotaskReady
  /\ IF isVoiceMode
       THEN /\ lastUserAction' = "stop"
            /\ IF variant = "relay"
                 THEN stopSession(conn)
                 ELSE stopSession_direct(conn, status)
            /\ UNCHANGED <<nSessions, pc, capSpeaking, turnFragments, errSince>>
       ELSE /\ lastUserAction' = "start"
            /\ startSession
  /\ UNCHANGED <<fixedVars, textReq, srv, textVars, wireVars, startSessionSpeaking>>

\* The language selector, enabled outside voice mode: selectedLanguage is a
\* dependency of useCallback, so startSession is made anew and closes over
\* the status of that render.
onSelect ==
  /\ ~MicrotaskReady
  /\ ~isVoiceMode
  /\ startSessionSpeaking # (status = "SPEAKING")
  /\ startSessionSpeaking' = (status = "SPEAKING")
  /\ UNCHANGED <<fixedVars, textReq, srv, textVars, turnFragments, wireVars, status, isVoiceMode, lifeVars, nextStartTime,
                 playingSources, sources, lastSched, errSince, lastUserAction>>

\* ------------------------------------------------------ transport callbacks

\* ws.send(JSON.stringify({type: 'config', ...})) without the send.
sendConfig_none(out, s) == out

\* ws.send(JSON.stringify({type: 'config', language: ...}))
sendConfig(out, s) == [out EXCEPT ![s] = Append(@, "config")]

\* onopen: (relay: send config;) create and connect the script processor.
\* The SDK resolves the connect promise right after the callback, and the
\* capture frames queued on the promise are sent then.
onopen(s) ==
  /\ ~MicrotaskReady
  /\ conn[s] = "CONNECTING"
  /\ conn' = [conn EXCEPT ![s] = "OPEN"]
  /\ proc' = [proc EXCEPT ![s] = "connected"]
  /\ scriptProcessorRef' = s
  /\ sessionPromise' = IF variant = "direct"
                         THEN [sessionPromise EXCEPT ![s] = "resolved"]
                         ELSE sessionPromise
  /\ sent' = IF variant = "relay"
               THEN sendConfig(sent, s)
               ELSE [sent EXCEPT ![s] = @ \o [i \in 1..thenQueue[s] |-> "realtimeInput"]]
  /\ thenQueue' = [thenQueue EXCEPT ![s] = 0]
  /\ UNCHANGED <<fixedVars, textReq, srv, textVars, turnFragments, status, isVoiceMode, startSessionSpeaking, nSessions,
                 pc, capSpeaking, stream, outCtx, wsRef, sessionPromiseRef,
                 streamRef, outputAudioContextRef, nextStartTime,
                 playingSources, sources, lastSched, pendingStops, closeCalls,
                 errSince, lastUserAction>>

\* The transport fails (readyState is CLOSED when the error event fires):
\* onerror does setStatus('ERROR') and calls stopSession.
onerror(s) ==
  /\ ~MicrotaskReady
  /\ conn[s] \in {"CONNECTING", "OPEN"}
  /\ errSince' = TRUE
  /\ IF variant = "relay"
       THEN stopSession([conn EXCEPT ![s] = "CLOSED"])
       ELSE stopSession_direct([conn EXCEPT ![s] = "CLOSED"], "ERROR")
  /\ UNCHANGED <<fixedVars, textReq, srv, textVars, turnFragments, wireVars, startSessionSpeaking, nSessions, pc, capSpeaking,
                 lastUserAction>>

\* The relay sends {type: 'error'}: setStatus('ERROR'); stopSession(); return.
onmessage_error(s) ==
  /\ ~MicrotaskReady
  /\ variant = "relay"
  /\ conn[s] = "OPEN"
  /\ errSince' = TRUE
  /\ stopSession(conn)
  /\ UNCHANGED <<fixedVars, textReq, srv, textVars, turnFragments, wireVars, startSessionSpeaking, nSessions, pc, capSpeaking,
                 lastUserAction>>

\* The remote side closes the transport, or a close the client asked for
\* completes: onclose is empty.
onclose(s) ==
  /\ ~MicrotaskReady
  /\ conn[s] \in {"OPEN", "CLOSING"}
  /\ conn' = [conn EXCEPT ![s] = "CLOSED"]
  /\ UNCHANGED <<fixedVars, textReq, srv, textVars, turnFragments, wireVars, status, isVoiceMode, startSessionSpeaking, nSessions,
                 pc, capSpeaking, stream, sessionPromise, proc, outCtx, wsRef,
                 sessionPromiseRef, streamRef, scriptProcessorRef,
                 outputAudioContextRef, nextStartTime, playingSources, sources,
                 lastSched, pendingStops, closeCalls, errSince, lastUserAction>>

\* -------------------------------------------------------------- capture path

\* The capture frames among what was sent on a transport.
audioSent(q) == Cardinality({i \in DOMAIN q : q[i] # "config"})

\* scriptProcessor.onaudioprocess of the processor that call s connected.
\* Relay: nothing unless its own socket is OPEN, else send audio_in on it.
\* Direct: sessionPromiseRef.current?.then(session => sendRealtimeInput):
\* nothing with a null ref, a send on the session the ref holds when its
\* promise is resolved, else a callback queued on the pending promise.
onaudioprocess(s) ==
  /\ ~MicrotaskReady
  /\ proc[s] = "connected"
  /\ IF variant = "relay"
       THEN IF conn[s] # "OPEN"
              THEN UNCHANGED wireVars
              ELSE /\ audioSent(sent[s]) < scope.sends
                   /\ sent' = [sent EXCEPT ![s] = Append(@, "audio_in")]
                   /\ thenQueue' = thenQueue
       ELSE IF sessionPromiseRef = 0
              THEN UNCHANGED wireVars
              ELSE IF sessionPromise[sessionPromiseRef] = "resolved"
                THEN IF conn[sessionPromiseRef] # "OPEN"
                       THEN UNCHANGED wireVars
                       ELSE /\ audioSent(sent[sessionPromiseRef]) < scope.sends
                            /\ sent' = [sent EXCEPT ![sessionPromiseRef] =
                                          Append(@, "realtimeInput")]
                            /\ thenQueue' = thenQueue
                ELSE /\ thenQueue[sessionPromiseRef] < MaxQueued
                     /\ thenQueue' = [thenQueue EXCEPT ![sessionPromiseRef] = @ + 1]
                     /\ sent' = sent
  /\ UNCHANGED <<fixedVars, textReq, srv, textVars, turnFragments, status, isVoiceMode,
                 startSessionSpeaking, lifeVars, nextStartTime, playingSources,
                 sources, lastSched, errSince, lastUserAction>>

\* ------------------------------------------------------------ content events

Events ==
  [audio : {NoAudio, Malformed} \cup (1..scope.dur),
   interrupted : BOOLEAN, turnComplete : BOOLEAN,
   inText : IF scope.text > 0 THEN Fragments ELSE {<< >>},
   outText : IF scope.text > 0 THEN Fragments ELSE {<< >>}]

\* String.prototype.trim
RECURSIVE trimLeft(_)
trimLeft(t) ==
  IF t # << >> /\ Head(t) = " " THEN trimLeft(Tail(t)) ELSE t

RECURSIVE trimRight(_)
trimRight(t) ==
  IF t # << >> /\ t[Len(t)] = " "
    THEN trimRight(SubSeq(t, 1, Len(t) - 1)) ELSE t

trim(t) == trimRight(trimLeft(t))

\* addMessage without `if (!text.trim()) return`.
addMessage_noGuard(log, text, sender) ==
  Append(log, [text |-> trim(text), sender |-> sender])

\* addMessage: nothing for a text that trims to nothing, else the trimmed
\* text is appended to the log.
addMessage(log, text, sender) ==
  IF trim(text) = << >> THEN log
  ELSE Append(log, [text |-> trim(text), sender |-> sender])

\* The frame reaches decode and source.start: it is there, an output context
\* exists, and it decodes.
schedulable(ev) ==
  ev.audio \notin {NoAudio, Malformed} /\ outputAudioContextRef # 0

\* decodeAudioData throws: the handler ends there.
decodeThrows(ev) ==
  ev.audio = Malformed /\ outputAudioContextRef # 0

\* The status the handler leaves; cs says that the handler's closed-over
\* status is 'SPEAKING'.
statusAfter(cs, ev) ==
  LET s1 == IF ~cs THEN "THINKING" ELSE status
      s2 == IF ev.audio # NoAudio THEN "SPEAKING" ELSE s1
  IN  IF decodeThrows(ev) THEN s2
      ELSE IF ev.interrupted THEN "LISTENING" ELSE s2

\* The scheduler after a handler that does not act on `interrupted`.
playbackAfter_ignoresInterrupted(ev, now) ==
  IF schedulable(ev) THEN schedule(PB, ev.audio, now) ELSE PB

\* The scheduler after the handler: the frame is scheduled, then an
\* interruption stops all playback.
playbackAfter(ev, now) ==
  LET pb1 == IF schedulable(ev) THEN schedule(PB, ev.audio, now) ELSE PB
  IN  IF ev.interrupted /\ ~decodeThrows(ev) THEN stopAllPlayback(pb1) ELSE pb1

\* The log after a handler that flushes the buffers as they were before
\* this event's fragments.
messagesAfter_flushFirst(ev) ==
  IF ev.turnComplete /\ ~decodeThrows(ev)
    THEN addMessage(addMessage(messages, currentInputTranscription, "user"),
                    currentOutputTranscription, "bot")
    ELSE messages

\* The log after the handler: on turnComplete the user text, then the bot
\* text, each with the fragments of this event already appended.
messagesAfter(ev) ==
  IF ev.turnComplete /\ ~decodeThrows(ev)
    THEN addMessage(
           addMessage(messages, currentInputTranscription \o ev.inText, "user"),
           currentOutputTranscription \o ev.outText, "bot")
    ELSE messages

\* The handler reaches its turnComplete branch.
flushes(ev) == ev.turnComplete /\ ~decodeThrows(ev)

\* The fragments of the turn so far: none when the last event flushed them.
turnSoFar == IF turnFragments.flushed THEN NoFragments ELSE turnFragments

\* The record of the turn after the handler, kept in the runs whose events
\* carry transcript text.
fragmentsAfter(ev) ==
  IF scope.text = 0 THEN NoFragments ELSE
  [user |-> turnSoFar.user \o ev.inText,
   bot |-> turnSoFar.bot \o ev.outText,
   flushed |-> flushes(ev),
   before |-> IF flushes(ev) THEN Len(messages) ELSE 0,
   trailUser |-> IF flushes(ev) THEN ev.inText ELSE << >>,
   trailBot |-> IF flushes(ev) THEN ev.outText ELSE << >>]

\* onmessage with serverContent, now being audioContext.currentTime.
onmessage(s, ev, now) ==
  /\ ~MicrotaskReady
  /\ conn[s] = "OPEN"
  /\ schedulable(ev) => Len(sources) < scope.frames
  /\ Len(currentInputTranscription \o ev.inText)
       + Len(currentOutputTranscription \o ev.outText) <= scope.text
  /\ (ev.turnComplete /\ ~decodeThrows(ev)) => Len(messages) + 2 <= MaxMsgs + 1
  /\ status' = statusAfter(capSpeaking[s], ev)
  /\ SetPB(playbackAfter(ev, now))
  /\ messages' = messagesAfter(ev)
  /\ IF ev.turnComplete /\ ~decodeThrows(ev)
       THEN /\ currentInputTranscription' = << >>
            /\ currentOutputTranscription' = << >>
       ELSE /\ currentInputTranscription' = currentInputTranscription \o ev.inText
            /\ currentOutputTranscription' = currentOutputTranscription \o ev.outText
  /\ turnFragments' = fragmentsAfter(ev)
  /\ UNCHANGED <<fixedVars, textReq, srv, wireVars, isVoiceMode, startSessionSpeaking, lifeVars,
                 errSince, lastUserAction>>

\* source.onended: after the source played to its end or was stopped.
onended(i) ==
  /\ ~MicrotaskReady
  /\ i \in DOMAIN sources
  /\ sources[i] \in {"scheduled", "stopped"}
  /\ sources' = [sources EXCEPT ![i] = "ended"]
  /\ playingSources' = playingSources \ {i}
  /\ status' = IF playingSources \ {i} = {} THEN "LISTENING" ELSE status
  /\ UNCHANGED <<fixedVars, textReq, srv, textVars, turnFragments, wireVars, isVoiceMode, startSessionSpeaking, lifeVars,
                 nextStartTime, lastSched, errSince, lastUserAction>>

Next ==
  \/ handleToggleVoiceMode
  \/ onSelect
  \/ \E s \in Sessions : getUserMedia_resolve(s)
  \/ \E s \in Sessions : getUserMedia_reject(s)
  \/ \E s \in Sessions : stopSession_resume(s)
  \/ \E s \in Sessions : onopen(s)
  \/ \E s \in Sessions : onerror(s)
  \/ \E s \in Sessions : onmessage_error(s)
  \/ \E s \in Sessions : onclose(s)
  \/ \E s \in Sessions : onaudioprocess(s)
  \/ \E s \in Sessions, ev \in Events, now \in 0..scope.clock : onmessage(s, ev, now)
  \/ \E i \in 1..MaxFrames : onended(i)

Spec == Init /\ [][Next]_vars

\* Every start/stop interleaving of up to MaxSessions sessions, with one
\* audio frame and no capture frame sent.
InitSessions ==
  InitIn([sessions |-> MaxSessions, frames |-> 1, clock |-> MaxClock, dur |-> MaxDur,
          sends |-> 0, text |-> 0, overlap |-> TRUE])
SpecSessions == InitSessions /\ [][Next]_vars

\* ------------------------------------------------------------------ text chat

\* "Sorry, I encountered an error."
Sorry == <<"a">>

\* handleSendText up to its await, with t the input text; the input and the
\* send button are disabled in voice mode.  A blank input returns at once.
handleSendText(t) ==
  /\ ~MicrotaskReady
  /\ ~isVoiceMode
  /\ IF trim(t) = << >>
       THEN UNCHANGED <<messages, status, textReq>>
       ELSE /\ textReq < MaxTextReq
            /\ Len(messages) + 2 <= MaxMsgs + 1
            /\ messages' = addMessage(messages, t, "user")
            /\ status' = "THINKING"
            /\ textReq' = textReq + 1
  /\ UNCHANGED <<fixedVars, srv, wireVars, turnFragments, isVoiceMode,
                 startSessionSpeaking, lifeVars, nextStartTime, playingSources,
                 sources, lastSched, currentInputTranscription,
                 currentOutputTranscription, errSince, lastUserAction>>

\* The response arrives: the reply is added; or the request failed: the
\* catch adds the apology and sets ERROR.  finally sets IDLE last.
handleSendText_response(ok, reply) ==
  /\ ~MicrotaskReady
  /\ textReq > 0
  /\ textReq' = textReq - 1
  /\ messages' = IF ok THEN addMessage(messages, reply, "bot")
                       ELSE addMessage(messages, Sorry, "bot")
  /\ status' = "IDLE"
  /\ UNCHANGED <<fixedVars, srv, wireVars, turnFragments, isVoiceMode,
                 startSessionSpeaking, lifeVars, nextStartTime, playingSources,
                 sources, lastSched, currentInputTranscription,
                 currentOutputTranscription, errSince, lastUserAction>>

NextChat ==
  \/ Next
  \/ \E t \in Fragments : handleSendText(t)
  \/ \E ok \in BOOLEAN, reply \in Fragments : handleSendText_response(ok, reply)

\* One voice session and the text chat beside it.
InitChat ==
  InitIn([sessions |-> 1, frames |-> 1, clock |-> 0, dur |-> 1, sends |-> 1,
          text |-> 0, overlap |-> TRUE])
SpecChat == InitChat /\ [][NextChat]_vars

\* ------------------------------------------------------------ relay server

\* parsedMessage.type === 'config', without `&& !sessionPromise`.
configOpens_noGuard(m, sp) == m = "config"

\* A first branch that tests `!sessionPromise` only.
configOpens_anyType(m, sp) == sp = "null"

\* parsedMessage.type === 'config' && !sessionPromise
configOpens(m, sp) == m = "config" /\ sp = "null"

\* parsedMessage.type === 'audio_in' && sessionPromise
audioForwards(m, sp) == m = "audio_in" /\ sp # "null"

\* A close handler that does not call session.close().
srvSessionClose_none(c) == c

\* session.close(): an open backend session starts closing.
srvSessionClose(c) ==
  [c EXCEPT !.closeCalls = @ + 1,
            !.gemini = IF @ = "open" THEN "closing" ELSE @]

\* ws.close() on the client socket.
srvWsClose(c) == [c EXCEPT !.ws = IF @ = "OPEN" THEN "CLOSING" ELSE @]

\* ws.on('message'): a config with no sessionPromise yet calls
\* ai.live.connect; an audio_in with a sessionPromise awaits it and calls
\* sendRealtimeInput (at once when it is resolved, later when it is pending,
\* never when it is rejected: the catch logs); anything else is ignored.
srv_onmessage(m) ==
  /\ srv.ws \in {"OPEN", "CLOSING"}
  /\ Len(srv.received) < MaxReceived
  /\ LET got == [srv EXCEPT !.received = Append(@, m)]
     IN  srv' =
           IF configOpens(m, srv.sessionPromise)
             THEN [got EXCEPT !.sessionPromise = "pending",
                              !.gemini = "connecting",
                              !.connectCalls = @ + 1]
           ELSE IF audioForwards(m, srv.sessionPromise)
             THEN IF srv.sessionPromise = "pending"
                    THEN [got EXCEPT !.audioWaiting = @ + 1]
                  ELSE IF srv.sessionPromise = "resolved" /\ srv.gemini = "open"
                    THEN [got EXCEPT !.forwarded = @ + 1]
                  ELSE got
           ELSE got
  /\ UNCHANGED clientVars

\* The backend session opens: onopen logs, the promise resolves, and the
\* handlers awaiting it continue in the order they began to wait: every
\* audio_in handler sends its frame, then the close handler closes the session.
srv_connect_resolve ==
  /\ srv.gemini = "connecting"
  /\ LET opened == [srv EXCEPT !.gemini = "open",
                               !.sessionPromise = "resolved",
                               !.forwarded = @ + srv.audioWaiting,
                               !.audioWaiting = 0,
                               !.closeWaiting = FALSE]
     IN  srv' = IF srv.closeWaiting THEN srvSessionClose(opened) ELSE opened
  /\ UNCHANGED clientVars

\* ai.live.connect rejects: every handler awaiting it lands in its catch.
srv_connect_reject ==
  /\ srv.gemini = "connecting"
  /\ srv' = [srv EXCEPT !.gemini = "closed",
                        !.sessionPromise = "rejected",
                        !.audioWaiting = 0,
                        !.closeWaiting = FALSE]
  /\ UNCHANGED clientVars

\* callbacks.onmessage: relay the backend message if the client socket is OPEN.
srv_gemini_onmessage ==
  /\ srv.gemini = "open"
  /\ srv.relayed < MaxRelayed
  /\ srv' = IF srv.ws = "OPEN" THEN [srv EXCEPT !.relayed = @ + 1] ELSE srv
  /\ UNCHANGED clientVars

\* callbacks.onerror: send {type: 'error'} if the client socket is OPEN, then
\* ws.close().  The backend connection is lost; its close event follows.
srv_gemini_onerror ==
  /\ srv.gemini \in {"connecting", "open", "closing"}
  /\ srv' = srvWsClose([srv EXCEPT !.errorsSent = IF srv.ws = "OPEN" THEN @ + 1 ELSE @,
                                   !.gemini = "errored"])
  /\ UNCHANGED clientVars

\* callbacks.onclose: close the client socket if it is OPEN.
srv_gemini_onclose ==
  /\ srv.gemini \in {"open", "closing", "errored"}
  /\ srv' = srvWsClose([srv EXCEPT !.gemini = "closed"])
  /\ UNCHANGED clientVars

\* ws.on('close'): with a sessionPromise, await it and close the session.
srv_ws_onclose ==
  /\ srv.ws \in {"OPEN", "CLOSING"}
  /\ LET gone == [srv EXCEPT !.ws = "CLOSED"]
     IN  srv' =
           IF srv.sessionPromise = "pending"
             THEN [gone EXCEPT !.closeWaiting = TRUE]
           ELSE IF srv.sessionPromise = "resolved"
             THEN srvSessionClose(gone)
           ELSE gone
  /\ UNCHANGED clientVars

NextServer ==
  \/ \E m \in {"config", "audio_in"} : srv_onmessage(m)
  \/ srv_connect_resolve
  \/ srv_connect_reject
  \/ srv_gemini_onmessage
  \/ srv_gemini_onerror
  \/ srv_gemini_onclose
  \/ srv_ws_onclose

\* One connection of the relay server, under every order of client messages,
\* backend callbacks and the client's disconnect.
InitServer ==
  /\ InitIn([sessions |-> 0, frames |-> 0, clock |-> 0, dur |-> 0, sends |-> 0,
             text |-> 0, overlap |-> TRUE])
  /\ variant = "relay"
SpecServer == InitServer /\ [][NextServer]_vars

\* The same connection under the scheduling the network gives: a connect in
\* progress ends (it resolves, rejects or fails with an error event), a
\* backend session that is closing or has failed gets its close event, and a
\* client socket that is closing gets its close event.  Nothing obliges an
\* open session or an open socket to end.
SpecServerFair ==
  /\ InitServer
  /\ [][NextServer]_vars
  /\ WF_vars(srv.gemini = "connecting"
               /\ (srv_connect_resolve \/ srv_connect_reject \/ srv_gemini_onerror))
  /\ WF_vars(srv.gemini \in {"closing", "errored"} /\ srv_gemini_onclose)
  /\ WF_vars(srv.ws = "CLOSING" /\ srv_ws_onclose)

\* One session whose events carry transcript fragments.
InitText ==
  InitIn([sessions |-> 1, frames |-> 1, clock |-> 0, dur |-> 1, sends |-> 0,
          text |-> MaxText, overlap |-> TRUE])
SpecText == InitText /\ [][Next]_vars

\* The same session under the scheduling the runtime gives: the ended event
\* of a source that finished or was stopped is delivered, and a stopSession
\* whose connect promise has resolved continues.  Nothing obliges the backend
\* to send a further event.
SpecTextFair ==
  /\ InitText
  /\ [][Next]_vars
  /\ WF_vars(\E i \in 1..MaxFrames : onended(i))
  /\ WF_vars(\E s \in Sessions : stopSession_resume(s))

\* One session with one more transcript character: room for text on both
\* sides of a turn with a blank at the edge of one.
InitTurn ==
  InitIn([sessions |-> 1, frames |-> 1, clock |-> 0, dur |-> 1, sends |-> 0,
          text |-> MaxText + 1, overlap |-> TRUE])
SpecTurn == InitTurn /\ [][Next]_vars

\* One transcript character across up to MaxSessions sessions, each started
\* after the one before it has settled.
InitTextSessions ==
  InitIn([sessions |-> MaxSessions, frames |-> 1, clock |-> 0, dur |-> 1, sends |-> 0,
          text |-> 1, overlap |-> FALSE])
SpecTextSessions == InitTextSessions /\ [][Next]_vars

\* ------------------------------------------------------------------ claims

Playable == 1..MaxDur
live(s) == isVoiceMode /\ (wsRef = s \/ sessionPromiseRef = s)

\* C1: between two stopAllPlayback calls, a frame is scheduled no earlier than
\* the frame scheduled before it, and no earlier than that frame's end:
\* start_{i+1} >= start_i + d_i.
C1_NoOverlap ==
  [][(Len(sources') = Len(sources) + 1 /\ lastSched.run >= 1)
       => /\ lastSched'.start >= lastSched.start
          /\ lastSched'.start >= lastSched.start + lastSched.dur]_vars

\* Two frames were scheduled one after the other with no stopAllPlayback
\* between them, the second after a gap (the clock had passed the cursor).
C1_Witness ==
  /\ lastSched.run = 2
  /\ lastSched.start = 2
  /\ lastSched.dur = 2
  /\ Len(sources) = 2

\* C2: stopAllPlayback leaves the playing set empty and nextStartTime 0 from
\* every state, and a second call changes nothing more.
C2_StopAllResets ==
  LET once == stopAllPlayback(PB)
  IN  /\ once.playing = {}
      /\ once.nextStartTime = 0
      /\ stopAllPlayback(once) = once

\* stopAllPlayback has stopped a source that was playing.
C2_Witness ==
  /\ \E i \in DOMAIN sources : sources[i] = "stopped"
  /\ playingSources = {}
  /\ nextStartTime = 0

\* C3: a content event without audio and without interruption that arrives in
\* SPEAKING does not set THINKING; in voice mode the status becomes THINKING
\* only from LISTENING.
C3_SpeakingNeverRegresses ==
  [][/\ \A s \in Sessions, ev \in Events, now \in 0..MaxClock :
          (/\ status = "SPEAKING"
           /\ ev.audio = NoAudio
           /\ ~ev.interrupted
           /\ onmessage(s, ev, now)) => status' # "THINKING"
     /\ (isVoiceMode /\ status' = "THINKING" /\ status # "THINKING")
          => status = "LISTENING"]_vars

\* C4: once an error was handled the status is ERROR until the next start.
C4_ErrorIsSticky == errSince => status = "ERROR"

\* C5: never two open transports, never two live capture streams.
C5_AtMostOneLiveSession ==
  /\ Cardinality({s \in Sessions : conn[s] = "OPEN"}) <= 1
  /\ Cardinality({s \in Sessions : stream[s] = "live"}) <= 1

\* C6: after the last stop, with no getUserMedia, no transport open and no
\* stopSession still pending, no capture stream is live and no transport is
\* open.
C6_NoLeakAfterStop ==
  (/\ lastUserAction = "stop"
   /\ ~isVoiceMode
   /\ \A s \in Sessions :
        pc[s] # "awaitGUM" /\ conn[s] # "CONNECTING" /\ pendingStops[s] = 0)
  => \A s \in Sessions : stream[s] # "live" /\ conn[s] # "OPEN"

\* C7: no transport has close() called on it twice, and once a stopSession on
\* a session's transport has completed, that transport is closed or closing,
\* the capture tracks are stopped and nothing is playing.
C7_CloseExactlyOnce ==
  \A s \in Sessions :
    /\ closeCalls[s] <= 1
    /\ (conn[s] # "none" /\ wsRef = 0 /\ sessionPromiseRef = 0)
         => /\ conn[s] \in {"CLOSING", "CLOSED"}
            /\ stream[s] # "live"
            /\ playingSources = {}

\* C8: when the remote side closes the open transport of the live session,
\* the status becomes ERROR and the session is torn down.
C8_RemoteCloseTearsDown ==
  [][\A s \in Sessions :
       (conn[s] = "OPEN" /\ live(s) /\ onclose(s))
         => /\ status' = "ERROR"
            /\ playingSources' = {}
            /\ stream'[s] # "live"
            /\ wsRef' = 0
            /\ sessionPromiseRef' = 0]_vars

\* C9: after onerror or an inbound error message nothing is playing, the
\* cursor is 0, the capture tracks are stopped, the processor is disconnected,
\* the transport is closed or closing, and no session was started.
C9_ErrorCompletesTeardown ==
  [][\A s \in Sessions :
       (onerror(s) \/ onmessage_error(s))
         => /\ playingSources' = {}
            /\ nextStartTime' = 0
            /\ stream'[s] # "live"
            /\ proc'[s] # "connected"
            /\ conn'[s] \in {"CLOSING", "CLOSED"}
            /\ nSessions' = nSessions]_vars

\* C10: an event with both an audio frame and the interruption flag creates
\* and starts no source; afterwards the playing set is empty and the cursor 0.
C10_InterruptedFrameNotScheduled ==
  [][\A s \in Sessions, ev \in Events, now \in 0..MaxClock :
       (ev.interrupted /\ ev.audio \in Playable /\ onmessage(s, ev, now))
         => /\ sources' = sources
            /\ playingSources' = {}
            /\ nextStartTime' = 0]_vars

\* C11: an interruption event stops every playing source, empties the set,
\* resets the cursor to 0 and leaves LISTENING; the next audio frame after it
\* is scheduled at the clock time of its handler, and the cursor is then that
\* time plus the frame's duration.
C11_InterruptThenFresh ==
  [][\A s \in Sessions, ev \in Events, now \in 0..MaxClock :
       /\ (ev.interrupted /\ ev.audio = NoAudio /\ onmessage(s, ev, now))
            => /\ playingSources' = {}
               /\ nextStartTime' = 0
               /\ status' = "LISTENING"
               /\ \A i \in playingSources : sources'[i] = "stopped"
       /\ (/\ ev.audio \in Playable
           /\ ~ev.interrupted
           /\ Len(sources) >= 1
           /\ lastSched.run = 0
           /\ outputAudioContextRef # 0
           /\ onmessage(s, ev, now))
            => /\ sources' = Append(sources, "scheduled")
               /\ lastSched'.start = now
               /\ nextStartTime' = now + ev.audio]_vars

\* F1 was scheduled and stopped by an interruption, and F2 was scheduled
\* after it at clock time 1, in a session that was neither stopped nor failed.
C11_Witness ==
  /\ Len(sources) = 2
  /\ sources[1] = "stopped"
  /\ sources[2] = "scheduled"
  /\ lastSched = [start |-> 1, dur |-> 1, run |-> 1]
  /\ nextStartTime = 2
  /\ status = "SPEAKING"
  /\ isVoiceMode /\ lastUserAction = "start" /\ ~errSince

\* C12: in a session that was neither stopped nor failed, a start leaves
\* LISTENING; a content event with a playable frame and no interruption
\* leaves SPEAKING, one without audio moves LISTENING to THINKING and leaves
\* any other status as it is (SPEAKING taken while a source is playing); the
\* end of a source that played out leaves
\* LISTENING when the set is then empty and changes nothing otherwise.
C12_NormalTurnOrder ==
  [][/\ nSessions' = nSessions + 1 => status' = "LISTENING"
     /\ \A s \in Sessions, ev \in Events, now \in 0..MaxClock :
          (/\ live(s) /\ ~errSince
           /\ ~ev.interrupted
           /\ ev.audio # Malformed
           /\ status = "SPEAKING" => playingSources # {}
           /\ onmessage(s, ev, now))
            => status' = IF ev.audio \in Playable THEN "SPEAKING"
                         ELSE IF status = "LISTENING" THEN "THINKING"
                         ELSE status
     /\ \A i \in DOMAIN sources :
          (sources[i] = "scheduled" /\ onended(i))
            => status' = IF playingSources' = {} THEN "LISTENING" ELSE status]_vars

\* C13: the messages a turn-complete appends are made of exactly the
\* fragments received since the last flush or, if later, the last start:
\* nothing received before that start is in them.
C13_FlushHoldsTurnOnly ==
  [][\A s \in Sessions, ev \in Events, now \in 0..MaxClock :
       (flushes(ev) /\ onmessage(s, ev, now))
         => messages' =
              addMessage(
                addMessage(messages, turnSoFar.user \o ev.inText, "user"),
                turnSoFar.bot \o ev.outText, "bot")]_vars

\* The text holds something other than blanks.
nonblank(t) == trim(t) # << >>

\* C14: after a turn-complete whose accumulated user text and bot text both
\* hold more than blanks, the log has grown by exactly two messages: the user
\* message, then the bot message, each with the accumulated fragments as its
\* text.
C14_TwoMessagesVerbatim ==
  (/\ turnFragments.flushed
   /\ nonblank(turnFragments.user)
   /\ nonblank(turnFragments.bot))
    => /\ Len(messages) = turnFragments.before + 2
       /\ messages[turnFragments.before + 1] =
            [text |-> turnFragments.user, sender |-> "user"]
       /\ messages[turnFragments.before + 2] =
            [text |-> turnFragments.bot, sender |-> "bot"]

\* Every text of up to MaxText characters.
Texts == UNION {[1..n -> Chars] : n \in 0..MaxText}

\* C15: no message of the log is empty or only blanks; a turn-complete
\* appends one message for each side whose accumulated text holds more than
\* blanks and none for the other sides; addMessage leaves the log as it is
\* for every empty or blank text, whoever calls it.
C15_NoBlankMessage ==
  /\ \A i \in DOMAIN messages : nonblank(messages[i].text)
  /\ turnFragments.flushed
       => Len(messages) = turnFragments.before
                            + (IF nonblank(turnFragments.user) THEN 1 ELSE 0)
                            + (IF nonblank(turnFragments.bot) THEN 1 ELSE 0)
  /\ \A t \in Texts, sender \in {"user", "bot"} :
       ~nonblank(t) => addMessage(messages, t, sender) = messages

\* A turn-complete found text on the user side and one blank on the bot side,
\* and appended the user message only.
C15_Witness ==
  /\ turnFragments.flushed
  /\ turnFragments.user = <<"a">>
  /\ turnFragments.bot = <<" ">>
  /\ Len(messages) = turnFragments.before + 1
  /\ messages[Len(messages)] = [text |-> <<"a">>, sender |-> "user"]

\* C16: after an event whose handler reached its turn-complete branch, both
\* buffers are empty and the log is the log before it plus the messages made
\* of the turn's fragments, those carried by that event included.
C16_TrailingFragmentsFlushed ==
  turnFragments.flushed
    => /\ currentInputTranscription = << >>
       /\ currentOutputTranscription = << >>
       /\ turnFragments.before <= Len(messages)
       /\ messages =
            addMessage(
              addMessage(SubSeq(messages, 1, turnFragments.before),
                         turnFragments.user, "user"),
              turnFragments.bot, "bot")

\* An event carried the fragment "a" and turnComplete when the user buffer
\* already held "a": the user message appended is "aa".
C16_Witness ==
  /\ turnFragments.flushed
  /\ turnFragments.trailUser = <<"a">>
  /\ turnFragments.user = <<"a", "a">>
  /\ Len(messages) = turnFragments.before + 1
  /\ messages[Len(messages)] = [text |-> <<"a", "a">>, sender |-> "user"]
  /\ currentInputTranscription = << >>

\* C17: in the relay client, whatever was sent on a socket starts with the
\* config message and holds no second one, and every socket whose onopen ran
\* has sent it.
C17_ConfigOnceFirst ==
  variant = "relay"
    => \A s \in Sessions :
         /\ proc[s] # "none" => sent[s] # << >>
         /\ sent[s] # << >>
              => /\ sent[s][1] = "config"
                 /\ \A i \in 2..Len(sent[s]) : sent[s][i] = "audio_in"

\* A socket of the relay client has carried config and then two capture
\* frames.
C17_Witness ==
  /\ variant = "relay"
  /\ sent[1] = <<"config", "audio_in", "audio_in">>

\* How many messages of a kind the server received.
count(q, kind) == Cardinality({i \in DOMAIN q : q[i] = kind})

\* The place of the first config among the received messages, or one past
\* the last message when there is none.
firstConfig(q) ==
  IF \E i \in DOMAIN q : q[i] = "config"
    THEN CHOOSE i \in DOMAIN q :
           q[i] = "config" /\ \A j \in 1..(i - 1) : q[j] # "config"
    ELSE Len(q) + 1

\* The audio_in messages received after the first config.
audioAfterConfig(q) ==
  Cardinality({i \in DOMAIN q : i > firstConfig(q) /\ q[i] = "audio_in"})

\* C18: the relay server calls ai.live.connect at most once on a connection,
\* however many config messages it receives, and exactly once when it has
\* received one.
C18_OneBackendSession ==
  /\ srv.connectCalls <= 1
  /\ count(srv.received, "config") >= 1 => srv.connectCalls = 1

\* Two config messages were received and one backend session was opened.
C18_Witness ==
  /\ count(srv.received, "config") = 2
  /\ srv.connectCalls = 1
  /\ srv.gemini = "open"

\* C19: without a config received no backend session is opened, and no more
\* frames are forwarded to the backend or wait to be forwarded than audio_in
\* messages were received after the first config.
C19_EarlyAudioDropped ==
  /\ count(srv.received, "config") = 0
       => srv.connectCalls = 0 /\ srv.gemini = "none" /\ srv.sessionPromise = "null"
  /\ srv.forwarded + srv.audioWaiting <= audioAfterConfig(srv.received)

\* An audio_in arrived first, then config, then another audio_in: one frame
\* reached the backend.
C19_Witness ==
  /\ srv.received = <<"audio_in", "config", "audio_in">>
  /\ srv.forwarded = 1
  /\ srv.audioWaiting = 0
  /\ srv.connectCalls = 1

\* The user's last toggle stopped the session, or an error was handled, and
\* no start followed.
stoppedOrErrored == lastUserAction = "stop" \/ errSince

\* C20: once the session has been stopped or has errored, no step puts a
\* further capture frame on a transport or queues one on a pending connect
\* promise.
C20_NoFrameAfterStop ==
  [][stoppedOrErrored
       => \A s \in Sessions :
            /\ audioSent(sent'[s]) = audioSent(sent[s])
            /\ thenQueue'[s] <= thenQueue[s]]_vars

\* C21: an event whose audio payload fails to decode leaves the status ERROR
\* and voice mode off: the session is torn down, not left running.
C21_DecodeFailureFatal ==
  [][\A s \in Sessions, ev \in Events, now \in 0..MaxClock :
       (decodeThrows(ev) /\ onmessage(s, ev, now))
         => status' = "ERROR" /\ ~isVoiceMode']_vars

\* C22: the step in which getUserMedia rejects leaves the status ERROR and
\* voice mode off and opens nothing, and the call that failed never has a
\* transport, a connect promise, a capture stream or anything sent.
C22_CaptureFailure ==
  /\ [](\A s \in Sessions :
          pc[s] = "failed"
            => /\ conn[s] = "none"
               /\ sessionPromise[s] = "none"
               /\ stream[s] = "none"
               /\ proc[s] = "none"
               /\ sent[s] = << >>
               /\ wsRef # s /\ sessionPromiseRef # s)
  /\ [][\A s \in Sessions :
          (pc[s] = "awaitGUM" /\ pc'[s] = "failed")
            => /\ status' = "ERROR"
               /\ ~isVoiceMode'
               /\ conn' = conn /\ sessionPromise' = sessionPromise]_vars

\* getUserMedia was rejected for the session in progress.
C22_Witness ==
  /\ nSessions = 1
  /\ pc[1] = "failed"
  /\ status = "ERROR"
  /\ ~isVoiceMode
  /\ lastUserAction = "start"

\* C23: the step in which the stopSession of an explicit stop runs to its end
\* (the toggle itself, or the continuation of a stop that waited for the
\* connect promise) leaves the status IDLE and voice mode off, whatever the
\* status was.
C23_StopEndsIdle ==
  [][(\/ isVoiceMode /\ handleToggleVoiceMode /\ pendingStops' = pendingStops
      \/ lastUserAction = "stop" /\ \E s \in Sessions : stopSession_resume(s))
       => status' = "IDLE" /\ ~isVoiceMode']_vars

\* An explicit stop has ended a session that was playing: its source was
\* stopped and its transport closed.
C23_Witness ==
  /\ lastUserAction = "stop"
  /\ status = "IDLE"
  /\ ~isVoiceMode
  /\ \E i \in DOMAIN sources : sources[i] = "stopped"
  /\ closeCalls[1] = 1
  /\ \A s \in Sessions : pendingStops[s] = 0

\* The step runs stopAllPlayback: an explicit stop, an error handler, or a
\* content event with the interruption flag.
callsStopAllPlayback ==
  \/ isVoiceMode /\ handleToggleVoiceMode
  \/ \E s \in Sessions : onerror(s) \/ onmessage_error(s)
  \/ \E s \in Sessions, ev \in Events, now \in 0..MaxClock :
       ev.interrupted /\ onmessage(s, ev, now)

\* C24: a step that lowers nextStartTime is a stopAllPlayback step and leaves
\* it 0; every other step leaves it as it was or raises it.
C24_CursorMonotonic ==
  [][nextStartTime' < nextStartTime
       => nextStartTime' = 0 /\ callsStopAllPlayback]_vars

\* The cursor stands past 0 after two frames were scheduled and a playback
\* end brought the status back to LISTENING, with no stopAllPlayback since.
C24_Witness ==
  /\ nextStartTime > 0
  /\ lastSched.run = 2
  /\ \E i \in DOMAIN sources : sources[i] = "ended"
  /\ status = "LISTENING"
  /\ isVoiceMode

\* C25: a handler that schedules a frame at clock time now starts it at
\* max(nextStartTime, now), never before now, and leaves nextStartTime at
\* that start plus the frame's duration (unless the same event's interruption
\* resets it afterwards).
C25_StartIsMax ==
  [][\A s \in Sessions, ev \in Events, now \in 0..MaxClock :
       (schedulable(ev) /\ onmessage(s, ev, now))
         => /\ lastSched'.start = Max(nextStartTime, now)
            /\ lastSched'.start >= now
            /\ lastSched'.start >= nextStartTime
            /\ lastSched'.dur = ev.audio
            /\ ~ev.interrupted => nextStartTime' = lastSched'.start + ev.audio]_vars

\* A frame of duration 2 arrived at clock time 1 with the cursor at 0: it
\* starts at 1 and the cursor is 3.
C25_Witness ==
  /\ lastSched.run = 1
  /\ lastSched.start = 1
  /\ lastSched.dur = 2
  /\ nextStartTime = 3
  /\ Len(sources) = 1

\* The audio_in messages the server took into its forwarding branch that
\* neither reached the backend nor still wait for the connect promise.
failedForwards(c) == audioAfterConfig(c.received) - c.forwarded - c.audioWaiting

\* C26: when the forwarding of a frame has failed on the relay server, the
\* client was sent a {type: 'error'} message.
C26_SendFailureReported == failedForwards(srv) > 0 => srv.errorsSent > 0

\* C27: after an explicit stop has left the status IDLE, with no start of
\* an earlier toggle still pending and no transport still open, every step
\* up to the next start keeps the status out of LISTENING, THINKING and
\* SPEAKING and adds no source to the playing set.
C27_IdleUntilStart ==
  [][(/\ lastUserAction = "stop"
      /\ lastUserAction' = "stop"
      /\ status = "IDLE"
      /\ ~isVoiceMode
      /\ \A s \in Sessions : settled(s))
       => /\ status' \notin {"LISTENING", "THINKING", "SPEAKING"}
          /\ playingSources' \subseteq playingSources]_vars

\* A session is live with its transport open and no error handled.
liveNoError ==
  /\ isVoiceMode
  /\ ~errSince
  /\ \E s \in Sessions : live(s) /\ conn[s] = "OPEN"

\* The last event handled completed the turn, and every source that was
\* scheduled has ended.
turnOver ==
  /\ turnFragments.flushed
  /\ sources # << >>
  /\ \A i \in DOMAIN sources : sources[i] = "ended"

\* C28: in a live session with no error, when the turn is complete and every
\* scheduled source has ended, the status becomes LISTENING (or the session
\* moves on: another event, a stop, an error).
C28_EventuallyListening ==
  (liveNoError /\ turnOver) ~> (status = "LISTENING" \/ ~(liveNoError /\ turnOver))

\* C29: while voice mode is on after a start, with no stop and no error
\* since, the status is not IDLE.
C29_LiveNeverIdle ==
  (isVoiceMode /\ lastUserAction = "start" /\ ~errSince) => status # "IDLE"

\* C30: on the relay server, once the client socket has closed after a
\* config, the backend session is eventually closed; once the backend
\* session has closed or failed, the client socket is eventually closed; and
\* a backend message is relayed only while the client socket is OPEN.
C30_LegsCloseTogether ==
  /\ (srv.ws = "CLOSED" /\ srv.connectCalls >= 1) ~> (srv.gemini = "closed")
  /\ (srv.gemini \in {"closed", "errored"} /\ srv.sessionPromise # "rejected")
       ~> (srv.ws = "CLOSED")
  /\ [][srv.relayed' > srv.relayed => srv.ws = "OPEN" /\ srv'.ws = "OPEN"]_vars

\* The client left while the backend session was open: session.close() was
\* called once and both legs are closed.
C30_Witness ==
  /\ srv.ws = "CLOSED"
  /\ srv.gemini = "closed"
  /\ srv.sessionPromise = "resolved"
  /\ srv.closeCalls = 1
  /\ srv.errorsSent = 0

====
